---- MODULE Spec2Model ----
(***************************************************************************)
(* Cogniva: a FastAPI service (src/main.py) over a sentence-embedding      *)
(* retriever (src/sandbox/chatbot.py).                                     *)
(*                                                                         *)
(* Conventions of the model                                                *)
(*  - positions are 1-based here (Sequences); pandas/torch positions are   *)
(*    0-based, so position p of the model is iloc position p-1;            *)
(*  - an embedding is a 2-dimensional integer vector; the cosine score is  *)
(*    kept exactly, as the fraction sign(a.b)*(a.b)^2 / (|a|^2 |b|^2),     *)
(*    a strictly increasing function of the cosine, so that order and ties *)
(*    of scores are those of exact cosine similarity (float rounding is    *)
(*    not modelled);                                                       *)
(*  - torch.topk leaves the order of equal scores open; it is a            *)
(*    deterministic function of its input, so the tie rule is one value    *)
(*    fixed for the whole run (variable tie), chosen freely at the start.  *)
(***************************************************************************)
EXTENDS Integers, Sequences, FiniteSets, TLC

\* ------------------------------------------------------------------ bounds
\* largest number of rows of data.csv
MaxDocs == 2
\* number of HTTP requests of a run
MaxRequests == 2

\* ------------------------------------------------------------ the data set
\* a cell of the "text" column as pandas reads it: a string, or NaN for a
\* missing value
StrCell(s) == [t |-> "str", s |-> s]
NaN == [t |-> "nan", s |-> ""]
Cells == {StrCell("France"), StrCell("france"), StrCell("Tokyo"), NaN}

\* the sequences over S of length at most n
RECURSIVE SeqsUpTo(_, _)
SeqsUpTo(S, n) ==
  IF n = 0 THEN {<<>>}
  ELSE LET shorter == SeqsUpTo(S, n - 1)
       IN  shorter \cup {Append(r, c) : r \in {x \in shorter : Len(x) = n - 1}, c \in S}

\* what data.csv can be: unreadable, or a table with one column
Files ==
  {[readable |-> FALSE, column |-> "text", rows |-> <<>>]}
  \cup {[readable |-> TRUE, column |-> "body", rows |-> <<NaN>>]}
  \cup {[readable |-> TRUE, column |-> "text", rows |-> r] : r \in SeqsUpTo(Cells, MaxDocs)}

\* astype(str) on one cell
Str(cell) == IF cell.t = "nan" THEN "nan" ELSE cell.s

\* the strings a caller passes as query
Queries == {Str(c) : c \in Cells}

\* -------------------------------------------------------- embedding model
\* model.encode on one string. all-MiniLM-L6-v2 lowercases its input, so
\* "France" and "france" get one vector.
Encode(s) ==
  CASE s = "France" -> <<2, 1>>
    [] s = "france" -> <<2, 1>>
    [] s = "Tokyo"  -> <<2, 2>>
    [] OTHER        -> <<-1, 1>>

\* the vectors in the order encode computes them in (longest string first),
\* not put back in the order of the list
EncodeBatch_sorted(ts) ==
  LET n == Len(ts)
      before(i) == {j \in 1..n : \/ Len(ts[j]) > Len(ts[i])
                                 \/ Len(ts[j]) = Len(ts[i]) /\ j < i}
      at(r) == CHOOSE i \in 1..n : Cardinality(before(i)) = r - 1
  IN  [r \in 1..n |-> Encode(ts[at(r)])]

\* model.encode on a list: one vector per string, in the order of the list
EncodeBatch(ts) == [i \in 1..Len(ts) |-> Encode(ts[i])]

Dot(a, b) == a[1] * b[1] + a[2] * b[2]
Sign(x) == IF x > 0 THEN 1 ELSE IF x < 0 THEN -1 ELSE 0

\* the dot product taken for the score, the vectors not normalised
Cos_dot(a, b) == [num |-> Sign(Dot(a, b)) * Dot(a, b) * Dot(a, b), den |-> 1]

\* one cosine score, as an exact fraction num/den with den > 0
Cos(a, b) == [num |-> Sign(Dot(a, b)) * Dot(a, b) * Dot(a, b),
              den |-> Dot(a, a) * Dot(b, b)]
ScoreGT(x, y) == x.num * y.den > y.num * x.den
ScoreEQ(x, y) == x.num * y.den = y.num * x.den

\* util.cos_sim(q_emb, embeddings)[0]: one score per stored vector
cos_sim(q, embs) == [i \in 1..Len(embs) |-> Cos(q, embs[i])]

\* ------------------------------------------------------------------- state
VARIABLES
  phase,       \* how far the start of the process has come
  df,          \* the table read from data.csv: its column and its rows
  texts,       \* the text column as strings
  embeddings,  \* the Embedding Store
  tie,         \* how this build's topk orders equal scores
  first,       \* an earlier direct call of retrieve, kept for comparison
  last,        \* the latest direct call of retrieve
  between,     \* a call with other arguments came after first
  reqs,        \* the HTTP requests: state, route, locals, response
  served       \* the requests answered, in the order of their answers

vars == <<phase, df, texts, embeddings, tie, first, last, between, reqs, served>>

index == <<df, texts, embeddings>>

\* ---------------------------------------------------------------- retrieve
TopKs == 0..(MaxDocs + 1)

Raise == [ok |-> FALSE, idx |-> <<>>]

\* the position topk takes next among the positions S
Best(scores, S) ==
  CHOOSE i \in S : \A j \in S \ {i} :
    \/ ScoreGT(scores[i], scores[j])
    \/ /\ ScoreEQ(scores[i], scores[j])
       /\ IF tie = "low" THEN i < j ELSE i > j

RECURSIVE Take(_, _, _)
Take(scores, S, k) ==
  IF k = 0 THEN <<>>
  ELSE LET b == Best(scores, S) IN <<b>> \o Take(scores, S \ {b}, k - 1)

\* the best position k times over
topk_repeat(scores, k) ==
  IF k < 0 \/ k > Len(scores) THEN Raise
  ELSE [ok |-> TRUE, idx |-> [n \in 1..k |-> Best(scores, 1..Len(scores))]]

\* the k smallest scores, as topk(largest=False) gives them
topk_smallest(scores, k) ==
  IF k < 0 \/ k > Len(scores) THEN Raise
  ELSE LET all == Take(scores, 1..Len(scores), Len(scores))
       IN  [ok |-> TRUE, idx |-> [n \in 1..k |-> all[Len(scores) + 1 - n]]]

\* k cut down to the number of scores
topk_clamp(scores, k) ==
  IF k < 0 THEN Raise
  ELSE [ok |-> TRUE,
        idx |-> Take(scores, 1..Len(scores), IF k > Len(scores) THEN Len(scores) ELSE k)]

\* scores.topk(k).indices.tolist(): the positions of the k largest scores,
\* largest first; an error when k is out of range
topk(scores, k) ==
  IF k < 0 \/ k > Len(scores) THEN Raise
  ELSE [ok |-> TRUE, idx |-> Take(scores, 1..Len(scores), k)]

Failure(e) == [status |-> e, rows |-> <<>>]

\* df.iloc[best_idx]: the rows at these positions, each with its position
iloc(best_idx) == [n \in 1..Len(best_idx) |->
                    [pos |-> best_idx[n], text |-> df.rows[best_idx[n]]]]

\* lines 13-15 of retrieve, after the query is embedded
Select(q_emb, top_k) ==
  IF Len(embeddings) = 0 THEN Failure("RuntimeError")
  ELSE LET scores == cos_sim(q_emb, embeddings)
           best == topk(scores, top_k)
       IN  IF best.ok THEN [status |-> "ok", rows |-> iloc(best.idx)]
           ELSE Failure("RuntimeError")

retrieve(query, top_k) == Select(Encode(query), top_k)

\* -------------------------------------------------------------------- init
NoCall == [q |-> "", k |-> -1, res |-> Failure("none")]
NoResp == [status |-> 0, body |-> "", chat |-> -1, results |-> <<>>]
NoReq == [st |-> "none", route |-> "", q_emb |-> <<>>, resp |-> NoResp]

Init ==
  /\ phase = "boot"
  /\ df = [column |-> "", rows |-> <<>>]
  /\ texts = <<>>
  /\ embeddings = <<>>
  /\ tie \in {"low", "high"}
  /\ first = NoCall
  /\ last = NoCall
  /\ between = FALSE
  /\ reqs = [r \in 1..MaxRequests |-> NoReq]
  /\ served = <<>>

\* ----------------------------------------------------------------- startup
\* chatbot.py line 4
LoadModel ==
  /\ phase = "boot"
  /\ phase' = "model"
  /\ UNCHANGED <<df, texts, embeddings, tie, first, last, between, reqs, served>>

\* chatbot.py line 6
ReadCsv(f) ==
  /\ phase = "model"
  /\ IF f.readable
     THEN /\ phase' = "csv"
          /\ df' = [column |-> f.column, rows |-> f.rows]
     ELSE /\ phase' = "failed"
          /\ df' = df
  /\ UNCHANGED <<texts, embeddings, tie, first, last, between, reqs, served>>

\* chatbot.py line 7
SelectTexts ==
  /\ phase = "csv"
  /\ IF df.column = "text"
     THEN /\ phase' = "texts"
          /\ texts' = [i \in 1..Len(df.rows) |-> Str(df.rows[i])]
     ELSE /\ phase' = "failed"
          /\ texts' = texts
  /\ UNCHANGED <<df, embeddings, tie, first, last, between, reqs, served>>

\* chatbot.py line 9
EncodeTexts ==
  /\ phase = "texts"
  /\ phase' = "indexed"
  /\ embeddings' = EncodeBatch(texts)
  /\ UNCHANGED <<df, texts, tie, first, last, between, reqs, served>>

\* chatbot.py line 9 on an empty list: older sentence-transformers stack an
\* empty list of vectors, which raises
EncodeNothing ==
  /\ phase = "texts"
  /\ Len(texts) = 0
  /\ phase' = "failed"
  /\ UNCHANGED <<df, texts, embeddings, tie, first, last, between, reqs, served>>

Startup == LoadModel \/ (\E f \in Files : ReadCsv(f)) \/ SelectTexts
           \/ EncodeTexts \/ EncodeNothing

\* ------------------------------------------------------- direct calls
\* retrieve keeps the query in the index, as one more document
CallRetrieve_indexing(query, top_k) ==
  /\ phase = "indexed"
  /\ LET call == [q |-> query, k |-> top_k, res |-> retrieve(query, top_k)]
     IN  /\ last' = call
         /\ \/ first' = call /\ between' = FALSE
            \/ /\ first # NoCall
               /\ first' = first
               /\ between' = (between \/ first.q # query \/ first.k # top_k)
  /\ df' = [df EXCEPT !.rows = Append(@, StrCell(query))]
  /\ texts' = Append(texts, query)
  /\ embeddings' = Append(embeddings, Encode(query))
  /\ UNCHANGED <<phase, tie, reqs, served>>

\* a caller of the module calls retrieve(query, top_k)
CallRetrieve(query, top_k) ==
  /\ phase = "indexed"
  /\ LET call == [q |-> query, k |-> top_k, res |-> retrieve(query, top_k)]
     IN  /\ last' = call
         /\ \/ first' = call /\ between' = FALSE
            \/ /\ first # NoCall
               /\ first' = first
               /\ between' = (between \/ first.q # query \/ first.k # top_k)
  /\ UNCHANGED <<phase, df, texts, embeddings, tie, reqs, served>>

NextFn == Startup \/ (\E q \in Queries, k \in TopKs : CallRetrieve(q, k))

SpecFn == Init /\ [][NextFn]_vars

\* ------------------------------------------------------------ the service
\* main.py lines 1-5 and 20-22: the imports have run, the app is created
\* and uvicorn serves it
Serve_early ==
  /\ phase \in {"csv", "texts", "indexed"}
  /\ phase' = "serving"
  /\ UNCHANGED <<df, texts, embeddings, tie, first, last, between, reqs, served>>

Serve ==
  /\ phase = "indexed"
  /\ phase' = "serving"
  /\ UNCHANGED <<df, texts, embeddings, tie, first, last, between, reqs, served>>

\* request r can be dispatched: the requests before it have been
CanStart(r) ==
  /\ phase = "serving"
  /\ reqs[r].st = "none"
  /\ IF r = 1 THEN TRUE ELSE reqs[r - 1].st # "none"

Answer(r, route, resp) ==
  /\ reqs' = [reqs EXCEPT ![r] = [st |-> "done", route |-> route,
                                  q_emb |-> <<>>, resp |-> resp]]
  /\ served' = Append(served, r)

Error(status) == [status |-> status, body |-> "error", chat |-> -1, results |-> <<>>]

\* main.py lines 7-9
read_root(r) ==
  /\ CanStart(r)
  /\ Answer(r, "/", [status |-> 200, body |-> "Hello World", chat |-> -1,
                     results |-> <<>>])
  /\ UNCHANGED <<phase, df, texts, embeddings, tie, first, last, between>>

\* the segments a client puts after /chat/, as sequences of characters
Digits == <<"0", "1", "2", "3", "4", "5", "6", "7", "8", "9">>
PathIds == {<<"7">>, <<"1", "2">>, <<"x">>, <<"1", "x">>}

DigitOf(c) == (CHOOSE d \in 1..Len(Digits) : Digits[d] = c) - 1
IsInt(seg) ==
  /\ Len(seg) > 0
  /\ \A n \in 1..Len(seg) : \E d \in 1..Len(Digits) : Digits[d] = seg[n]
RECURSIVE ParseInt(_)
ParseInt(seg) ==
  IF Len(seg) = 0 THEN 0
  ELSE 10 * ParseInt(SubSeq(seg, 1, Len(seg) - 1)) + DigitOf(seg[Len(seg)])

\* the chat lookup: some chat data for the id
get_chat(id) == [status |-> 200, body |-> "chat", chat |-> id, results |-> <<>>]

\* main.py lines 10-12; a segment that is no integer is refused with 422
read_chat(r, seg) ==
  /\ CanStart(r)
  /\ Answer(r, "/chat", IF IsInt(seg) THEN get_chat(ParseInt(seg)) ELSE Error(422))
  /\ UNCHANGED <<phase, df, texts, embeddings, tie, first, last, between>>

\* main.py line 15
query_other == "Tokyo"
query == "France"

\* main.py lines 13-16 into retrieve's line 12: the query is embedded
BeginRetrieve(r) ==
  /\ CanStart(r)
  /\ reqs' = [reqs EXCEPT ![r] = [st |-> "encoded", route |-> "/retrieve",
                                  q_emb |-> Encode(query), resp |-> NoResp]]
  /\ UNCHANGED <<phase, df, texts, embeddings, tie, first, last, between, served>>

\* main.py line 17: {"results": results} as JSON, results being the text
\* column of the frame; an exception of the handler, or a NaN that JSON
\* cannot carry, is answered with 500
Respond(res) ==
  IF res.status # "ok" THEN Error(500)
  ELSE IF \E n \in 1..Len(res.rows) : res.rows[n].text.t = "nan" THEN Error(500)
  ELSE [status |-> 200, body |-> "results", chat |-> -1, results |-> res.rows]

\* an exception of the handler ends the process
FinishRetrieve_crash(r) ==
  /\ phase = "serving"
  /\ reqs[r].st = "encoded"
  /\ LET res == Select(reqs[r].q_emb, 1)
     IN  IF res.status = "ok"
         THEN Answer(r, "/retrieve", Respond(res)) /\ phase' = phase
         ELSE phase' = "crashed" /\ UNCHANGED <<reqs, served>>
  /\ UNCHANGED <<df, texts, embeddings, tie, first, last, between>>

\* the query embedding is kept in the store
FinishRetrieve_caching(r) ==
  /\ phase = "serving"
  /\ reqs[r].st = "encoded"
  /\ Answer(r, "/retrieve", Respond(Select(reqs[r].q_emb, 1)))
  /\ embeddings' = Append(embeddings, reqs[r].q_emb)
  /\ UNCHANGED <<phase, df, texts, tie, first, last, between>>

\* retrieve's lines 13-15 and main.py lines 16-17: score, select, answer
FinishRetrieve(r) ==
  /\ phase = "serving"
  /\ reqs[r].st = "encoded"
  /\ Answer(r, "/retrieve", Respond(Select(reqs[r].q_emb, 1)))
  /\ UNCHANGED <<phase, df, texts, embeddings, tie, first, last, between>>

Requests ==
  \E r \in 1..MaxRequests :
    \/ read_root(r)
    \/ \E seg \in PathIds : read_chat(r, seg)
    \/ BeginRetrieve(r)
    \/ FinishRetrieve(r)

Next == Startup \/ Serve \/ Requests

Spec == Init /\ [][Next]_vars

\* ------------------------------------------------- claims about retrieve
N == Len(df.rows)
Called == phase = "indexed" /\ last # NoCall
\* the scores of the latest call's query against the store
lastScores == cos_sim(Encode(last.q), embeddings)
lastRows == last.res.rows
lastPos == {lastRows[n].pos : n \in 1..Len(lastRows)}

\* C1: with 1 <= top_k <= N, retrieve returns exactly top_k rows, each the
\* row of the data set at its position, and no position twice.
C1_ExactlyTopKRows ==
  (Called /\ 1 <= last.k /\ last.k <= N) =>
    /\ last.res.status = "ok"
    /\ Len(lastRows) = last.k
    /\ \A n \in 1..Len(lastRows) :
         /\ lastRows[n].pos \in 1..N
         /\ lastRows[n].text = df.rows[lastRows[n].pos]
    /\ \A m, n \in 1..Len(lastRows) : m # n => lastRows[m].pos # lastRows[n].pos

C1_Witness ==
  Called /\ N = 2 /\ last.k = 2 /\ last.res.status = "ok" /\ Len(lastRows) = 2

\* C2: with 1 <= top_k <= N, no row left out scores strictly higher than a
\* returned row, and the scores of the returned rows never increase.
C2_HighestFirst ==
  (Called /\ 1 <= last.k /\ last.k <= N) =>
    /\ last.res.status = "ok"
    /\ \A j \in (1..N) \ lastPos : \A p \in lastPos :
         ~ScoreGT(lastScores[j], lastScores[p])
    /\ \A n \in 1..(Len(lastRows) - 1) :
         ~ScoreGT(lastScores[lastRows[n + 1].pos], lastScores[lastRows[n].pos])

C2_Witness ==
  /\ Called /\ N = 2 /\ last.k = 2 /\ Len(lastRows) = 2
  /\ lastRows[1].pos = 2
  /\ ScoreGT(lastScores[2], lastScores[1])

\* C3 as stated: with top_k above the number of documents the call fails
\* with InvalidArgument, returns no rows and leaves the index as it was.
C3_InvalidArgument ==
  [][(phase' = "indexed" /\ last' # NoCall /\ last'.k > Len(df'.rows)) =>
       /\ last'.res.status = "InvalidArgument"
       /\ last'.res.rows = <<>>
       /\ index' = index]_vars

\* C3 amended: with top_k above the number of documents the call fails with
\* the RuntimeError of the library, returns no rows and leaves the index as
\* it was.
C3_RuntimeError ==
  [][(phase' = "indexed" /\ last' # NoCall /\ last'.k > Len(df'.rows)) =>
       /\ last'.res.status = "RuntimeError"
       /\ last'.res.rows = <<>>
       /\ index' = index]_vars

C3_Witness ==
  Called /\ N = 1 /\ last.k = 2 /\ last.res.status = "RuntimeError"

\* C4 as stated: the text of document i as query, with top_k = 1, returns
\* the row at position i, for every i.
C4_SelfMatchAlways ==
  \A i \in 1..N :
    (Called /\ last.q = texts[i] /\ last.k = 1) =>
      /\ last.res.status = "ok"
      /\ lastRows = <<[pos |-> i, text |-> df.rows[i]]>>

\* C4 amended: the text of document i as query, with top_k = 1, returns one
\* row whose score equals that of document i, and it is the row at position
\* i when no other document has the same score.
C4_SelfMatchUpToTies ==
  \A i \in 1..N :
    (Called /\ last.q = texts[i] /\ last.k = 1) =>
      /\ last.res.status = "ok"
      /\ Len(lastRows) = 1
      /\ ScoreEQ(lastScores[lastRows[1].pos], lastScores[i])
      /\ (\A j \in (1..N) \ {i} : ~ScoreEQ(lastScores[j], lastScores[i]))
           => lastRows = <<[pos |-> i, text |-> df.rows[i]]>>

C4_Witness ==
  /\ Called /\ N = 2 /\ last.k = 1 /\ last.q = texts[2]
  /\ ~ScoreEQ(lastScores[1], lastScores[2])
  /\ lastRows = <<[pos |-> 2, text |-> df.rows[2]]>>

\* C5: two calls of retrieve with the same query and top_k return the same
\* rows in the same order, whatever calls came between them.
C5_SameCallSameResult ==
  (phase = "indexed" /\ first # NoCall /\ first.q = last.q /\ first.k = last.k)
    => first.res = last.res

C5_Witness ==
  /\ phase = "indexed" /\ first # NoCall /\ between
  /\ first.q = last.q /\ first.k = last.k
  /\ last.k = 1 /\ last.res.status = "ok"
  /\ N = 2 /\ embeddings[1] = embeddings[2]

\* ----------------------------------------------- claims about the service
RetrieveDone(r) == reqs[r].st = "done" /\ reqs[r].route = "/retrieve"
Refused(r) == reqs[r].st = "done" /\ reqs[r].resp.status # 200
IndexBuilt == phase \in {"indexed", "serving"}
\* the documents no other document outscores for the query "France"
franceScores == cos_sim(Encode("France"), embeddings)
franceBest == {p \in 1..N : \A j \in 1..N : ~ScoreGT(franceScores[j], franceScores[p])}
\* the response carries the text of one best-matching row
CarriesBestText(resp) ==
  /\ Len(resp.results) = 1
  /\ resp.results[1].pos \in franceBest
  /\ resp.results[1].text = df.rows[resp.results[1].pos]

\* C6 as stated: every GET /retrieve/ is answered with the text of the best
\* match for "France".
C6_AlwaysBestText ==
  \A r \in 1..MaxRequests :
    RetrieveDone(r) => reqs[r].resp.status = 200 /\ CarriesBestText(reqs[r].resp)

\* C6 amended: a GET /retrieve/ answered with results carries the text of
\* the one best match for "France"; it is so answered when the data set is
\* not empty and its best matches hold strings, and it is answered with a
\* server error when the data set is empty.
C6_BestTextUnlessEmpty ==
  \A r \in 1..MaxRequests :
    RetrieveDone(r) =>
      /\ N = 0 => reqs[r].resp.status = 500
      /\ (N >= 1 /\ \A p \in franceBest : df.rows[p].t = "str")
           => reqs[r].resp.status = 200
      /\ reqs[r].resp.status = 200 => CarriesBestText(reqs[r].resp)

C6_Witness ==
  \E r \in 1..MaxRequests :
    /\ RetrieveDone(r) /\ reqs[r].resp.status = 200
    /\ N = 2 /\ franceBest = {2} /\ reqs[r].resp.results[1].pos = 2

\* C7: once startup is over the store has one vector per document, the
\* vector at position i being the embedding of the text at i as a string.
C7_StoreAligned ==
  IndexBuilt =>
    /\ Len(embeddings) = N
    /\ \A i \in 1..N : embeddings[i] = Encode(Str(df.rows[i]))

C7_Witness ==
  /\ phase = "serving" /\ Len(served) >= 1
  /\ df.rows = <<NaN, StrCell("Tokyo")>>

\* C8: once startup is over no step changes the documents or the store,
\* however the requests interleave, and an answered request keeps no
\* query embedding.
C8_IndexReadOnly ==
  /\ [][IndexBuilt => index' = index]_vars
  /\ [](\A r \in 1..MaxRequests : reqs[r].st # "encoded" => reqs[r].q_emb = <<>>)

C8_Witness ==
  /\ served = <<2, 1>>
  /\ RetrieveDone(1) /\ RetrieveDone(2) /\ N = 2

\* C9: requests are served only once the data set is loaded and then the
\* embeddings computed; a failed load is final: the process never serves
\* and the load is not tried again.
C9_ServeAfterIndex ==
  /\ []((served # <<>> \/ \E r \in 1..MaxRequests : reqs[r].st # "none")
          => phase = "serving")
  /\ [](phase = "serving" => df.column = "text" /\ Len(embeddings) = N)
  /\ [][phase' = "serving" => phase \in {"indexed", "serving"}]_vars
  /\ [][phase' = "indexed" => phase \in {"texts", "indexed"}]_vars
  /\ [][phase' = "texts" => phase \in {"csv", "texts"}]_vars
  /\ [][phase = "csv" /\ df.column # "text" => phase' \in {"csv", "failed"}]_vars
  /\ [][phase = "failed" => phase' = "failed" /\ index' = index /\ reqs' = reqs]_vars

C9_Witness ==
  /\ phase = "serving" /\ Len(served) = 2 /\ N = 2
  /\ \E r \in 1..MaxRequests : RetrieveDone(r) /\ reqs[r].resp.status = 200

\* C10: a request that fails is answered with an HTTP error and the process
\* goes on: it stays serving, further requests can be answered, and the
\* index is what it was.
C10_ErrorsAreAnswered ==
  /\ [](\A r \in 1..MaxRequests : (RetrieveDone(r) /\ N = 0) => reqs[r].resp.status = 500)
  /\ [](\A r \in 1..MaxRequests : reqs[r].st = "done" => reqs[r].resp.status \in {200, 422, 500})
  /\ []((\E r \in 1..MaxRequests : Refused(r)) => phase = "serving")
  /\ []((\E r \in 1..MaxRequests : Refused(r)) =>
          \A r \in 1..MaxRequests : CanStart(r) => ENABLED read_root(r))
  /\ [][phase = "serving" => phase' = "serving" /\ index' = index]_vars

C10_Witness ==
  /\ Len(served) = 2
  /\ RetrieveDone(served[1]) /\ reqs[served[1]].resp.status = 500
  /\ reqs[served[2]].resp.status = 200

====
